---- MODULE Spec2Model ----
(***************************************************************************)
(* A model of the radix tree of package rtree (balazskvancz/rtree).        *)
(*                                                                         *)
(* Strings are sequences of one-character strings, so that indexing,       *)
(* slicing and splitting are computed the way the Go code computes them.   *)
(* A Go pointer is a sequence of length at most one: Nil is the nil        *)
(* pointer and Ptr(x) points to x.  A node is a record                     *)
(*   [key |-> string, value |-> pointer to NodeValue, children |-> Seq]    *)
(* and the in-place mutations of insertRec are modelled by returning the   *)
(* node as it is left by the call, together with the returned error.       *)
(***************************************************************************)
EXTENDS Integers, Sequences, FiniteSets, TLC

VARIABLES t, stored, pc, ret, mu, g

vars == <<t, stored, pc, ret, mu, g>>

-----------------------------------------------------------------------------
(* Bounds of the model.                                                    *)

\* number of Inserts that may succeed in one behaviour
MaxInserts == 2
\* length of the raw (arbitrary) strings passed as keys to Insert and Find
MaxRawLen == 2
\* number of segments of the well-formed keys passed to Insert and Find
MaxSegs == 2
\* length of the raw strings passed to the key validator on its own
MaxUrlLen == 5
\* goroutines that call Insert concurrently
MaxGoroutines == 2

-----------------------------------------------------------------------------
(* Program constants and errors.                                           *)

slash == "/"
curlyStart == "{"
curlyEnd == "}"

NoErr == "nil"
errBadPathParamSyntax == "errBadPathParamSyntax"
errKeyIsAlreadyStored == "errKeyIsAlreadyStored"
errKeyIsEmpty == "errKeyIsEmpty"
errMissingSlashPrefix == "errMissingSlashPrefix"
errNoCommonPrefix == "errNoCommonPrefix"
errPresentSlashSuffix == "errPresentSlashSuffix"
errRootIsNil == "errRootIsNil"
errTreeIsNil == "errTreeIsNil"

Nil == <<>>
Ptr(x) == <<x>>
Deref(p) == p[1]

-----------------------------------------------------------------------------
(* Inputs.                                                                 *)

Alphabet == {"/", "{", "}", "a", "b"}

\* every string over Alphabet of length at most n
Strings(n) == UNION {[1..m -> Alphabet] : m \in 0..n}

\* a literal segment and a wildcard segment
Segments == {<<"a">>, <<"{", "a", "}">>}

RECURSIVE JoinSegs(_)
\* "/" + seg1 + "/" + seg2 + ...
JoinSegs(segs) ==
  IF segs = <<>> THEN <<>>
  ELSE <<slash>> \o Head(segs) \o JoinSegs(Tail(segs))

SegKeys == {JoinSegs(segs) : segs \in UNION {[1..m -> Segments] : m \in 1..MaxSegs}}

Keys == Strings(MaxRawLen) \cup SegKeys

Urls == Strings(MaxUrlLen)

-----------------------------------------------------------------------------
(* String helpers of the Go standard library, as the code uses them.       *)

\* s[from:] with a zero-based offset
Drop(s, from) == SubSeq(s, from + 1, Len(s))
\* s[:to] with a zero-based offset
Take(s, to) == SubSeq(s, 1, to)

ContainsRune(s, c) == \E i \in 1..Len(s) : s[i] = c

Count(s, c) == Cardinality({i \in 1..Len(s) : s[i] = c})

\* strings.IndexRune: zero-based index of the first c in s, or -1
IndexRune(s, c) ==
  IF ContainsRune(s, c)
  THEN (CHOOSE i \in 1..Len(s) : s[i] = c /\ \A j \in 1..(i - 1) : s[j] # c) - 1
  ELSE -1

(* A loop of the code is modelled by its round (one test of the loop       *)
(* condition and, where it holds, one pass through the body) and by an     *)
(* operator that runs n rounds, halving n, so that the evaluation of a     *)
(* loop over a string of several hundred characters stays shallow.  A      *)
(* round of a loop that has ended changes nothing, and n is the number of  *)
(* rounds after which the loop has ended at the latest; the second half of *)
(* the rounds is left out when the loop has ended within the first.        *)

\* strings.Split cuts off the text before the next separator
SplitStep(st, sep) ==
  LET idx == IndexRune(st.s, sep)
  IN IF idx = -1 THEN st
     ELSE [s |-> Drop(st.s, idx + 1), a |-> Append(st.a, Take(st.s, idx))]

RECURSIVE SplitLoop(_, _, _)
SplitLoop(st, sep, n) ==
  IF n = 0 THEN st
  ELSE IF n = 1 THEN SplitStep(st, sep)
  ELSE LET half == SplitLoop(st, sep, n \div 2)
       IN IF ~ContainsRune(half.s, sep) THEN half
          ELSE SplitLoop(half, sep, n - (n \div 2))

\* strings.Split(s, sep) for a one-character separator
Split(s, sep) ==
  LET st == SplitLoop([s |-> s, a |-> <<>>], sep, Count(s, sep))
  IN Append(st.a, st.s)

min(num1, num2) == IF num1 > num2 THEN num2 ELSE num1

\* one round of the loop of longestCommonPrefix
lcpStep(str1, str2, counter, maxVal) ==
  IF counter < maxVal /\ str1[counter + 1] = str2[counter + 1]
  THEN counter + 1
  ELSE counter

RECURSIVE lcpLoop(_, _, _, _, _)
lcpLoop(str1, str2, counter, maxVal, n) ==
  IF n = 0 THEN counter
  ELSE IF n = 1 THEN lcpStep(str1, str2, counter, maxVal)
  ELSE LET half == lcpLoop(str1, str2, counter, maxVal, n \div 2)
       IN IF half < counter + (n \div 2) THEN half
          ELSE lcpLoop(str1, str2, half, maxVal, n - (n \div 2))

longestCommonPrefix(str1, str2) ==
  LET maxVal == min(Len(str1), Len(str2))
  IN lcpLoop(str1, str2, 0, maxVal, maxVal)

-----------------------------------------------------------------------------
(* Key validation.                                                         *)

\* one round of the scan loop of checkPathParams; counter is the
\* zero-based index and err the error the loop has returned with, if any
checkPathParamsStep(url, st) ==
  IF st.err # NoErr \/ st.counter >= Len(url) THEN st
  ELSE LET c == url[st.counter + 1]
       IN IF c = slash /\ st.insideParam
          THEN [st EXCEPT !.err = errBadPathParamSyntax]
          ELSE IF c = curlyStart /\ st.insideParam
          THEN [st EXCEPT !.err = errBadPathParamSyntax]
          ELSE IF c = curlyEnd /\ ~st.insideParam
          THEN [st EXCEPT !.err = errBadPathParamSyntax]
          ELSE [st EXCEPT !.counter = st.counter + 1,
                          !.insideParam = IF c = curlyStart THEN TRUE
                                          ELSE IF c = curlyEnd THEN FALSE
                                          ELSE st.insideParam]

RECURSIVE checkPathParamsRounds(_, _, _)
checkPathParamsRounds(url, st, n) ==
  IF n = 0 THEN st
  ELSE IF n = 1 THEN checkPathParamsStep(url, st)
  ELSE LET half == checkPathParamsRounds(url, st, n \div 2)
       IN IF half.err # NoErr THEN half
          ELSE checkPathParamsRounds(url, half, n - (n \div 2))

\* the scan loop of checkPathParams and the test that follows it
checkPathParamsLoop(url, counter, insideParam) ==
  LET st == checkPathParamsRounds(url,
              [counter |-> counter, insideParam |-> insideParam, err |-> NoErr],
              Len(url))
  IN IF st.err # NoErr THEN st.err
     ELSE IF st.insideParam THEN errBadPathParamSyntax ELSE NoErr

\* mutant: the shortcut is taken when either bracket is missing
checkPathParams_eitherMissing(url) ==
  IF ~ContainsRune(url, curlyStart) \/ ~ContainsRune(url, curlyEnd)
  THEN NoErr
  ELSE checkPathParamsLoop(url, 0, FALSE)

checkPathParams(url) ==
  IF ~ContainsRune(url, curlyStart) /\ ~ContainsRune(url, curlyEnd)
  THEN NoErr
  ELSE checkPathParamsLoop(url, 0, FALSE)

\* mutant: the leading slash is not required
checkUrl_noPrefixCheck(url) ==
  IF url[Len(url)] = slash /\ url # <<slash>> THEN errPresentSlashSuffix
  ELSE checkPathParams(url)

\* mutant: the trailing slash is checked before the leading one
checkUrl_suffixFirst(url) ==
  IF url[Len(url)] = slash /\ url # <<slash>> THEN errPresentSlashSuffix
  ELSE IF url[1] # slash THEN errMissingSlashPrefix
  ELSE checkPathParams(url)

\* mutant: the key "/" is not excepted from the trailing slash check
checkUrl_noRootKey(url) ==
  IF url[1] # slash THEN errMissingSlashPrefix
  ELSE IF url[Len(url)] = slash THEN errPresentSlashSuffix
  ELSE checkPathParams(url)

checkUrl(url) ==
  IF url[1] # slash THEN errMissingSlashPrefix
  ELSE IF url[Len(url)] = slash /\ url # <<slash>> THEN errPresentSlashSuffix
  ELSE checkPathParams(url)

-----------------------------------------------------------------------------
(* Wildcard parameters.                                                    *)

\* the zero value of paramInfo
ZeroParamInfo == [key |-> <<>>, pos |-> 0]

\* the conversion uint8(i)
Uint8(i) == i % 256

\* one round of the range loop of getPathParams; i is the zero-based
\* index into splitted
getPathParamsStep(splitted, st) ==
  IF st.i >= Len(splitted) THEN st
  ELSE LET el == splitted[st.i + 1]
           l == Len(el)
       IN IF ~ContainsRune(el, curlyStart)
          THEN [st EXCEPT !.i = st.i + 1]
          ELSE IF l < 2
          THEN [st EXCEPT !.i = st.i + 1]
          ELSE [i |-> st.i + 1, counter |-> st.counter + 1,
                params |-> [st.params EXCEPT ![st.counter + 1] =
                              [key |-> SubSeq(el, 2, l - 1),
                               pos |-> Uint8(st.i)]]]

RECURSIVE getPathParamsRounds(_, _, _)
getPathParamsRounds(splitted, st, n) ==
  IF n = 0 THEN st
  ELSE IF n = 1 THEN getPathParamsStep(splitted, st)
  ELSE LET half == getPathParamsRounds(splitted, st, n \div 2)
       IN IF half.i >= Len(splitted) THEN half
          ELSE getPathParamsRounds(splitted, half, n - (n \div 2))

\* the range loop of getPathParams
getPathParamsLoop(splitted, i, counter, params) ==
  getPathParamsRounds(splitted,
    [i |-> i, counter |-> counter, params |-> params], Len(splitted)).params

getPathParams(v) ==
  LET paramCount == Count(v, curlyStart)
      params == [x \in 1..paramCount |-> ZeroParamInfo]
      splitted == Split(v, slash)
  IN getPathParamsLoop(splitted, 0, 0, params)

RECURSIVE matchParamsLoop(_, _, _, _)
\* the range loop of matchParams; mp is a function from names to segments
matchParamsLoop(params, spl, idx, mp) ==
  IF idx > Len(params) THEN mp
  ELSE LET pi == params[idx]
           pos == pi.pos
       IN IF pos >= Len(spl)
          THEN matchParamsLoop(params, spl, idx + 1, mp)
          ELSE matchParamsLoop(params, spl, idx + 1,
                 [x \in (DOMAIN mp) \cup {pi.key} |->
                    IF x = pi.key THEN spl[pos + 1] ELSE mp[x]])

\* the empty map
EmptyParams == [x \in {} |-> <<>>]

matchParams(params, v) ==
  matchParamsLoop(params, Split(v, slash), 1, EmptyParams)

-----------------------------------------------------------------------------
(* Nodes and insertion.                                                    *)

IsLeaf(n) == n.value # Nil

createNewNode(key, value, children) ==
  [key |-> key, value |-> value, children |-> children]

createNewNodeValue(val, paramsInfo) ==
  Ptr([value |-> val, params |-> paramsInfo])

addToChildren(n, newNode) ==
  [n EXCEPT !.children = Append(n.children, newNode)]

\* mutant: the value of a leaf is silently replaced
storeHere_overwrite(n, value) ==
  [err |-> NoErr, node |-> [n EXCEPT !.value = value]]

\* mutant: the value is stored before the leaf check
storeHere_storeFirst(n, value) ==
  IF IsLeaf(n)
  THEN [err |-> errKeyIsAlreadyStored, node |-> [n EXCEPT !.value = value]]
  ELSE [err |-> NoErr, node |-> [n EXCEPT !.value = value]]

\* insertRec, the current node is the place of the key (lines 174-183)
storeHere(n, value) ==
  IF IsLeaf(n)
  THEN [err |-> errKeyIsAlreadyStored, node |-> n]
  ELSE [err |-> NoErr, node |-> [n EXCEPT !.value = value]]

\* mutant: the split keeps one character less than the common prefix
splitNode_offByOne(n, key, value, lcp) ==
  LET cNewNode == createNewNode(Drop(n.key, lcp - 1), n.value, n.children)
      keyRem == Drop(key, lcp - 1)
  IN IF keyRem = <<>>
     THEN [err |-> NoErr,
           node |-> [key |-> Take(n.key, lcp - 1), value |-> value,
                     children |-> <<cNewNode>>]]
     ELSE LET newNode == createNewNode(keyRem, value, <<>>)
          IN [err |-> NoErr,
              node |-> [key |-> Take(n.key, lcp - 1), value |-> Nil,
                        children |-> <<cNewNode, newNode>>]]

\* mutant: the split loses the payload of the node it splits
splitNode_dropPayload(n, key, value, lcp) ==
  LET cNewNode == createNewNode(Drop(n.key, lcp), Nil, n.children)
      keyRem == Drop(key, lcp)
  IN IF keyRem = <<>>
     THEN [err |-> NoErr,
           node |-> [key |-> Take(n.key, lcp), value |-> value,
                     children |-> <<cNewNode>>]]
     ELSE LET newNode == createNewNode(keyRem, value, <<>>)
          IN [err |-> NoErr,
              node |-> [key |-> Take(n.key, lcp), value |-> Nil,
                        children |-> <<cNewNode, newNode>>]]

\* insertRec, the node's key is longer than the common prefix (lines 189-210)
splitNode(n, key, value, lcp) ==
  LET cNewNode == createNewNode(Drop(n.key, lcp), n.value, n.children)
      keyRem == Drop(key, lcp)
  IN IF keyRem = <<>>
     THEN [err |-> NoErr,
           node |-> [key |-> Take(n.key, lcp), value |-> value,
                     children |-> <<cNewNode>>]]
     ELSE LET newNode == createNewNode(keyRem, value, <<>>)
          IN [err |-> NoErr,
              node |-> [key |-> Take(n.key, lcp), value |-> Nil,
                        children |-> <<cNewNode, newNode>>]]

RECURSIVE insertRec(_, _, _)
RECURSIVE iterateInsertFrom(_, _, _, _)

\* the loop of iterateInsert from child i (one-based) on
iterateInsertFrom(n, key, value, i) ==
  IF i > Len(n.children)
  THEN [err |-> errNoCommonPrefix, node |-> n]
  ELSE LET r == insertRec(n.children[i], key, value)
           n2 == [n EXCEPT !.children[i] = r.node]
       IN IF r.err = NoErr THEN [err |-> NoErr, node |-> n2]
          ELSE IF r.err # errNoCommonPrefix THEN [err |-> r.err, node |-> n2]
          ELSE iterateInsertFrom(n2, key, value, i + 1)

iterateInsert(n, key, value) == iterateInsertFrom(n, key, value, 1)

insertRec(n, key, value) ==
  LET lcp == longestCommonPrefix(n.key, key)
      currentKeyLen == Len(n.key)
      keyLen == Len(key)
  IN IF lcp = 0 THEN [err |-> errNoCommonPrefix, node |-> n]
     ELSE IF currentKeyLen = lcp /\ keyLen = lcp THEN storeHere(n, value)
     ELSE IF currentKeyLen > lcp THEN splitNode(n, key, value, lcp)
     ELSE LET keyRem == Drop(key, lcp)
              r == iterateInsert(n, keyRem, value)
          IN IF r.err = NoErr THEN r
             ELSE IF r.err # errNoCommonPrefix THEN r
             ELSE [err |-> NoErr,
                   node |-> addToChildren(r.node,
                              createNewNode(keyRem, value, <<>>))]

\* New: a tree without a root
New == Ptr([root |-> Nil])

\* Insert after its two guards, with the lock held (lines 119-134)
insertLocked(tree, key, value) ==
  LET urlErr == checkUrl(key)
      nv == createNewNodeValue(value, getPathParams(key))
  IN IF urlErr # NoErr THEN [err |-> urlErr, tree |-> tree]
     ELSE IF Deref(tree).root = Nil
     THEN [err |-> NoErr,
           tree |-> Ptr([root |-> Ptr(createNewNode(key, nv, <<>>))])]
     ELSE LET r == insertRec(Deref(Deref(tree).root), key, nv)
          IN [err |-> r.err, tree |-> Ptr([root |-> Ptr(r.node)])]

\* mutant: the key is checked before the tree
Insert_keyFirst(tree, key, value) ==
  IF key = <<>> THEN [err |-> errKeyIsEmpty, tree |-> tree]
  ELSE IF tree = Nil THEN [err |-> errTreeIsNil, tree |-> tree]
  ELSE insertLocked(tree, key, value)

\* Tree.Insert: the returned error and the tree as the call leaves it
Insert(tree, key, value) ==
  IF tree = Nil THEN [err |-> errTreeIsNil, tree |-> tree]
  ELSE IF key = <<>> THEN [err |-> errKeyIsEmpty, tree |-> tree]
  ELSE insertLocked(tree, key, value)

-----------------------------------------------------------------------------
(* The assignments of an Insert one at a time: what a reader that does not *)
(* take the lock can see of the node while the call runs.                  *)

\* the node after each assignment of the split, in order (lines 196-198
\* and 205-207)
splitNodeWrites(n, key, value, lcp) ==
  LET cNewNode == createNewNode(Drop(n.key, lcp), n.value, n.children)
      keyRem == Drop(key, lcp)
  IN IF keyRem = <<>>
     THEN LET n1 == [n EXCEPT !.key = Take(n.key, lcp)]
              n2 == [n1 EXCEPT !.value = value]
              n3 == [n2 EXCEPT !.children = <<cNewNode>>]
          IN <<n1, n2, n3>>
     ELSE LET newNode == createNewNode(keyRem, value, <<>>)
              n1 == [n EXCEPT !.value = Nil]
              n2 == [n1 EXCEPT !.key = Take(n.key, lcp)]
              n3 == [n2 EXCEPT !.children = <<cNewNode, newNode>>]
          IN <<n1, n2, n3>>

RECURSIVE insertRecWrites(_, _, _)
RECURSIVE iterateInsertWrites(_, _, _, _)

\* iterateInsert: the assignments are those made below the child that
\* does not return errNoCommonPrefix
iterateInsertWrites(n, key, value, i) ==
  IF i > Len(n.children) THEN <<>>
  ELSE IF insertRec(n.children[i], key, value).err = errNoCommonPrefix
  THEN iterateInsertWrites(n, key, value, i + 1)
  ELSE LET w == insertRecWrites(n.children[i], key, value)
       IN [j \in 1..Len(w) |-> [n EXCEPT !.children[i] = w[j]]]

\* insertRec: the node after each assignment the call makes, in order
insertRecWrites(n, key, value) ==
  LET lcp == longestCommonPrefix(n.key, key)
      currentKeyLen == Len(n.key)
      keyLen == Len(key)
  IN IF lcp = 0 THEN <<>>
     ELSE IF currentKeyLen = lcp /\ keyLen = lcp
     THEN IF IsLeaf(n) THEN <<>> ELSE <<[n EXCEPT !.value = value]>>
     ELSE IF currentKeyLen > lcp THEN splitNodeWrites(n, key, value, lcp)
     ELSE LET keyRem == Drop(key, lcp)
          IN IF iterateInsert(n, keyRem, value).err = errNoCommonPrefix
             THEN <<addToChildren(n, createNewNode(keyRem, value, <<>>))>>
             ELSE iterateInsertWrites(n, keyRem, value, 1)

\* Insert with the lock held: the tree after each assignment, in order
insertLockedWrites(tree, key, value) ==
  LET nv == createNewNodeValue(value, getPathParams(key))
  IN IF checkUrl(key) # NoErr THEN <<>>
     ELSE IF Deref(tree).root = Nil
     THEN <<Ptr([root |-> Ptr(createNewNode(key, nv, <<>>))])>>
     ELSE LET w == insertRecWrites(Deref(Deref(tree).root), key, nv)
          IN [j \in 1..Len(w) |-> Ptr([root |-> Ptr(w[j])])]

-----------------------------------------------------------------------------
(* Lookup.                                                                 *)

checkTree(tree) ==
  IF tree = Nil THEN errTreeIsNil
  ELSE IF Deref(tree).root = Nil THEN errRootIsNil
  ELSE NoErr

RECURSIVE getOffsetsLoop(_, _, _, _, _)

\* mutant: inside a wildcard the search key is consumed as well
getOffsetsLoop_wildcardConsumes(storedKey, searchKey, i, j, isWildcard) ==
  IF i >= Len(storedKey) THEN <<i, j, isWildcard>>
  ELSE IF j >= Len(searchKey) /\ ~isWildcard THEN <<i, j, isWildcard>>
  ELSE IF storedKey[i + 1] = curlyStart
  THEN getOffsetsLoop(storedKey, searchKey, i + 1, j, TRUE)
  ELSE IF storedKey[i + 1] = curlyEnd
  THEN LET cSearchRem == Drop(searchKey, j)
           nextSlashIdx == IndexRune(cSearchRem, slash)
           skip == IF nextSlashIdx = -1 THEN Len(cSearchRem) ELSE nextSlashIdx
       IN getOffsetsLoop(storedKey, searchKey, i + 1, j + skip, FALSE)
  ELSE IF isWildcard
  THEN getOffsetsLoop(storedKey, searchKey, i + 1,
                      min(j + 1, Len(searchKey)), isWildcard)
  ELSE IF storedKey[i + 1] # searchKey[j + 1] THEN <<i, j, isWildcard>>
  ELSE getOffsetsLoop(storedKey, searchKey, i + 1, j + 1, isWildcard)

\* the loop of getOffsets; i and j are the zero-based cursors
getOffsetsLoop(storedKey, searchKey, i, j, isWildcard) ==
  IF i >= Len(storedKey) THEN <<i, j, isWildcard>>
  ELSE IF j >= Len(searchKey) /\ ~isWildcard THEN <<i, j, isWildcard>>
  ELSE IF storedKey[i + 1] = curlyStart
  THEN getOffsetsLoop(storedKey, searchKey, i + 1, j, TRUE)
  ELSE IF storedKey[i + 1] = curlyEnd
  THEN LET cSearchRem == Drop(searchKey, j)
           nextSlashIdx == IndexRune(cSearchRem, slash)
           skip == IF nextSlashIdx = -1 THEN Len(cSearchRem) ELSE nextSlashIdx
       IN getOffsetsLoop(storedKey, searchKey, i + 1, j + skip, FALSE)
  ELSE IF isWildcard
  THEN getOffsetsLoop(storedKey, searchKey, i + 1, j, isWildcard)
  ELSE IF storedKey[i + 1] # searchKey[j + 1] THEN <<i, j, isWildcard>>
  ELSE getOffsetsLoop(storedKey, searchKey, i + 1, j + 1, isWildcard)

getOffsets(storedKey, searchKey, isWildcard) ==
  getOffsetsLoop(storedKey, searchKey, 0, 0, isWildcard)

RECURSIVE findRec(_, _, _)
RECURSIVE findRecChildren(_, _, _, _)

\* the loops of findRec over n.children, from child i (one-based) on
findRecChildren(children, i, key, isWildcard) ==
  IF i > Len(children) THEN Nil
  ELSE LET found == findRec(Ptr(children[i]), key, isWildcard)
       IN IF found # Nil THEN found
          ELSE findRecChildren(children, i + 1, key, isWildcard)

\* mutant: a search key that ends inside the fragment is a hit
findRec_prefixHit(np, key, wildcardIn) ==
  IF np = Nil THEN Nil
  ELSE
    LET n == Deref(np)
        isWildcard == IF ContainsRune(n.key, curlyStart) THEN TRUE ELSE wildcardIn
        lcp == longestCommonPrefix(n.key, key)
    IN IF lcp = 0 /\ ~isWildcard THEN Nil
       ELSE IF ~isWildcard
       THEN IF lcp = Len(key) THEN np
            ELSE IF lcp < Len(n.key) THEN Nil
            ELSE findRecChildren(n.children, 1, Drop(key, lcp), isWildcard)
       ELSE
         LET nodeKeyRem == Drop(n.key, lcp)
             searchKeyRem == Drop(key, lcp)
             offs == getOffsets(nodeKeyRem, searchKeyRem, TRUE)
             offset1 == offs[1]
             offset2 == offs[2]
             isStillWildcard == offs[3]
             newSearchKey == Drop(searchKeyRem, offset2)
         IN IF Len(nodeKeyRem) # offset1 THEN Nil
            ELSE IF newSearchKey = <<>>
            THEN IF IsLeaf(n) THEN np ELSE Nil
            ELSE findRecChildren(n.children, 1, newSearchKey, isStillWildcard)

\* n is a pointer to a node; the result is a pointer to the found node
findRec(np, key, wildcardIn) ==
  IF np = Nil THEN Nil
  ELSE
    LET n == Deref(np)
        isWildcard == IF ContainsRune(n.key, curlyStart) THEN TRUE ELSE wildcardIn
        lcp == longestCommonPrefix(n.key, key)
    IN IF lcp = 0 /\ ~isWildcard THEN Nil
       ELSE IF ~isWildcard
       THEN IF key = n.key THEN np
            ELSE IF lcp < Len(n.key) THEN Nil
            ELSE findRecChildren(n.children, 1, Drop(key, lcp), isWildcard)
       ELSE
         LET nodeKeyRem == Drop(n.key, lcp)
             searchKeyRem == Drop(key, lcp)
             offs == getOffsets(nodeKeyRem, searchKeyRem, TRUE)
             offset1 == offs[1]
             offset2 == offs[2]
             isStillWildcard == offs[3]
             newSearchKey == Drop(searchKeyRem, offset2)
         IN IF Len(nodeKeyRem) # offset1 THEN Nil
            ELSE IF newSearchKey = <<>>
            THEN IF IsLeaf(n) THEN np ELSE Nil
            ELSE findRecChildren(n.children, 1, newSearchKey, isStillWildcard)

\* mutant: the empty search key is not refused
Find_noEmptyKeyCheck(tree, key) ==
  IF checkTree(tree) # NoErr THEN Nil
  ELSE LET np == findRec(Deref(tree).root, key, FALSE)
       IN IF np = Nil \/ Deref(np).value = Nil THEN Nil
          ELSE LET nv == Deref(Deref(np).value)
               IN Ptr([value |-> nv.value, params |-> matchParams(nv.params, key)])

\* Tree.Find: a pointer to the FoundNode, or Nil
Find(tree, key) ==
  IF checkTree(tree) # NoErr THEN Nil
  ELSE IF key = <<>> THEN Nil
  ELSE LET np == findRec(Deref(tree).root, key, FALSE)
       IN IF np = Nil \/ Deref(np).value = Nil THEN Nil
          ELSE LET nv == Deref(Deref(np).value)
               IN Ptr([value |-> nv.value, params |-> matchParams(nv.params, key)])

-----------------------------------------------------------------------------
(* Longest match, leaf enumeration and search by predicate.                *)

RECURSIVE findLongestMatchRec(_, _)
RECURSIVE findLongestMatchChildren(_, _, _)

\* the loop of findLongestMatchRec over n.children, from child i on
findLongestMatchChildren(children, i, key) ==
  IF i > Len(children) THEN Nil
  ELSE LET node == findLongestMatchRec(Ptr(children[i]), key)
       IN IF node # Nil THEN node
          ELSE findLongestMatchChildren(children, i + 1, key)

\* mutant: a leaf is returned before its children are searched
findLongestMatchRec_leafFirst(np, key) ==
  IF np = Nil THEN Nil
  ELSE LET n == Deref(np)
           lcp == longestCommonPrefix(n.key, key)
       IN IF lcp = 0 THEN Nil
          ELSE IF lcp # Len(n.key) THEN Nil
          ELSE IF IsLeaf(n) THEN np
          ELSE findLongestMatchChildren(n.children, 1, Drop(key, lcp))

findLongestMatchRec(np, key) ==
  IF np = Nil THEN Nil
  ELSE LET n == Deref(np)
           lcp == longestCommonPrefix(n.key, key)
       IN IF lcp = 0 THEN Nil
          ELSE IF lcp # Len(n.key) THEN Nil
          ELSE LET node == findLongestMatchChildren(n.children, 1, Drop(key, lcp))
               IN IF node # Nil THEN node
                  ELSE IF ~IsLeaf(n) THEN Nil
                  ELSE np

\* Tree.FindLongestMatch: a pointer to the FoundNode, or Nil
FindLongestMatch(tree, key) ==
  IF checkTree(tree) # NoErr THEN Nil
  ELSE IF key = <<>> THEN Nil
  ELSE LET np == findLongestMatchRec(Deref(tree).root, key)
       IN IF np = Nil \/ Deref(np).value = Nil THEN Nil
          ELSE Ptr([value |-> Deref(Deref(np).value).value,
                    params |-> EmptyParams])

-----------------------------------------------------------------------------
(* The search with the bounds checks of the Go runtime made explicit: an   *)
(* index s[i] needs 0 <= i < len(s), a slice s[i:] needs 0 <= i <= len(s), *)
(* and the call panics at the first one that fails.                        *)

InRangeIndex(s, i) == 0 <= i /\ i < Len(s)

InRangeSlice(s, i) == 0 <= i /\ i <= Len(s)

RECURSIVE getOffsetsCheckedLoop(_, _, _, _, _, _)

\* mutant: the scan does not stop at the end of the search key
getOffsetsCheckedLoop_noSearchEnd(storedKey, searchKey, i, j, isWildcard, rounds) ==
  LET out(p) == [i |-> i, j |-> j, isWildcard |-> isWildcard, panic |-> p,
                 rounds |-> rounds + 1]
  IN IF i >= Len(storedKey) THEN out(FALSE)
     ELSE IF ~InRangeIndex(storedKey, i) THEN out(TRUE)
     ELSE IF storedKey[i + 1] = curlyStart
     THEN getOffsetsCheckedLoop(storedKey, searchKey, i + 1, j, TRUE, rounds + 1)
     ELSE IF storedKey[i + 1] = curlyEnd
     THEN IF ~InRangeSlice(searchKey, j) THEN out(TRUE)
          ELSE LET cSearchRem == Drop(searchKey, j)
                   nextSlashIdx == IndexRune(cSearchRem, slash)
                   skip == IF nextSlashIdx = -1 THEN Len(cSearchRem)
                           ELSE nextSlashIdx
               IN getOffsetsCheckedLoop(storedKey, searchKey, i + 1, j + skip,
                                        FALSE, rounds + 1)
     ELSE IF isWildcard
     THEN getOffsetsCheckedLoop(storedKey, searchKey, i + 1, j, isWildcard,
                                rounds + 1)
     ELSE IF ~InRangeIndex(searchKey, j) THEN out(TRUE)
     ELSE IF storedKey[i + 1] # searchKey[j + 1] THEN out(FALSE)
     ELSE getOffsetsCheckedLoop(storedKey, searchKey, i + 1, j + 1, isWildcard,
                                rounds + 1)

\* the loop of getOffsets; rounds counts the passes through the loop, the
\* one that breaks included
getOffsetsCheckedLoop(storedKey, searchKey, i, j, isWildcard, rounds) ==
  LET out(p) == [i |-> i, j |-> j, isWildcard |-> isWildcard, panic |-> p,
                 rounds |-> rounds + 1]
  IN IF i >= Len(storedKey) THEN out(FALSE)
     ELSE IF j >= Len(searchKey) /\ ~isWildcard THEN out(FALSE)
     ELSE IF ~InRangeIndex(storedKey, i) THEN out(TRUE)
     ELSE IF storedKey[i + 1] = curlyStart
     THEN getOffsetsCheckedLoop(storedKey, searchKey, i + 1, j, TRUE, rounds + 1)
     ELSE IF storedKey[i + 1] = curlyEnd
     THEN IF ~InRangeSlice(searchKey, j) THEN out(TRUE)
          ELSE LET cSearchRem == Drop(searchKey, j)
                   nextSlashIdx == IndexRune(cSearchRem, slash)
                   skip == IF nextSlashIdx = -1 THEN Len(cSearchRem)
                           ELSE nextSlashIdx
               IN getOffsetsCheckedLoop(storedKey, searchKey, i + 1, j + skip,
                                        FALSE, rounds + 1)
     ELSE IF isWildcard
     THEN getOffsetsCheckedLoop(storedKey, searchKey, i + 1, j, isWildcard,
                                rounds + 1)
     ELSE IF ~InRangeIndex(searchKey, j) THEN out(TRUE)
     ELSE IF storedKey[i + 1] # searchKey[j + 1] THEN out(FALSE)
     ELSE getOffsetsCheckedLoop(storedKey, searchKey, i + 1, j + 1, isWildcard,
                                rounds + 1)

getOffsetsChecked(storedKey, searchKey, isWildcard) ==
  getOffsetsCheckedLoop(storedKey, searchKey, 0, 0, isWildcard, 0)

\* the outcome of a search: the found node, whether the call panicked, and
\* the calls of getOffsets it made, in order
SearchOutcome(found, panic, scans) ==
  [found |-> found, panic |-> panic, scans |-> scans]

RECURSIVE findRecChecked(_, _, _)
RECURSIVE findRecCheckedChildren(_, _, _, _, _)

\* the loops of findRec over n.children, from child i (one-based) on
findRecCheckedChildren(children, i, key, isWildcard, scans) ==
  IF i > Len(children) THEN SearchOutcome(Nil, FALSE, scans)
  ELSE LET r == findRecChecked(Ptr(children[i]), key, isWildcard)
       IN IF r.panic \/ r.found # Nil
          THEN SearchOutcome(r.found, r.panic, scans \o r.scans)
          ELSE findRecCheckedChildren(children, i + 1, key, isWildcard,
                                      scans \o r.scans)

findRecChecked(np, key, wildcardIn) ==
  IF np = Nil THEN SearchOutcome(Nil, FALSE, <<>>)
  ELSE
    LET n == Deref(np)
        isWildcard == IF ContainsRune(n.key, curlyStart) THEN TRUE ELSE wildcardIn
        lcp == longestCommonPrefix(n.key, key)
    IN IF lcp = 0 /\ ~isWildcard THEN SearchOutcome(Nil, FALSE, <<>>)
       ELSE IF ~isWildcard
       THEN IF key = n.key THEN SearchOutcome(np, FALSE, <<>>)
            ELSE IF lcp < Len(n.key) THEN SearchOutcome(Nil, FALSE, <<>>)
            ELSE IF Len(n.children) > 0 /\ ~InRangeSlice(key, lcp)
            THEN SearchOutcome(Nil, TRUE, <<>>)
            ELSE findRecCheckedChildren(n.children, 1, Drop(key, lcp),
                                        isWildcard, <<>>)
       ELSE IF ~InRangeSlice(n.key, lcp) \/ ~InRangeSlice(key, lcp)
       THEN SearchOutcome(Nil, TRUE, <<>>)
       ELSE
         LET nodeKeyRem == Drop(n.key, lcp)
             searchKeyRem == Drop(key, lcp)
             offs == getOffsetsChecked(nodeKeyRem, searchKeyRem, TRUE)
             scan == [storedKey |-> nodeKeyRem, searchKey |-> searchKeyRem,
                      offs |-> offs]
         IN IF offs.panic THEN SearchOutcome(Nil, TRUE, <<scan>>)
            ELSE IF Len(nodeKeyRem) # offs.i
            THEN SearchOutcome(Nil, FALSE, <<scan>>)
            ELSE IF ~InRangeSlice(searchKeyRem, offs.j)
            THEN SearchOutcome(Nil, TRUE, <<scan>>)
            ELSE LET newSearchKey == Drop(searchKeyRem, offs.j)
                 IN IF newSearchKey = <<>>
                    THEN SearchOutcome(IF IsLeaf(n) THEN np ELSE Nil, FALSE,
                                       <<scan>>)
                    ELSE findRecCheckedChildren(n.children, 1, newSearchKey,
                                                offs.isWildcard, <<scan>>)

RECURSIVE findLongestMatchRecChecked(_, _)
RECURSIVE findLongestMatchCheckedChildren(_, _, _)

\* the loop of findLongestMatchRec over n.children, from child i on
findLongestMatchCheckedChildren(children, i, key) ==
  IF i > Len(children) THEN SearchOutcome(Nil, FALSE, <<>>)
  ELSE LET r == findLongestMatchRecChecked(Ptr(children[i]), key)
       IN IF r.panic \/ r.found # Nil THEN r
          ELSE findLongestMatchCheckedChildren(children, i + 1, key)

findLongestMatchRecChecked(np, key) ==
  IF np = Nil THEN SearchOutcome(Nil, FALSE, <<>>)
  ELSE LET n == Deref(np)
           lcp == longestCommonPrefix(n.key, key)
       IN IF lcp = 0 THEN SearchOutcome(Nil, FALSE, <<>>)
          ELSE IF lcp # Len(n.key) THEN SearchOutcome(Nil, FALSE, <<>>)
          ELSE IF Len(n.children) > 0 /\ ~InRangeSlice(key, lcp)
          THEN SearchOutcome(Nil, TRUE, <<>>)
          ELSE LET r == findLongestMatchCheckedChildren(n.children, 1,
                                                        Drop(key, lcp))
               IN IF r.panic \/ r.found # Nil THEN r
                  ELSE IF ~IsLeaf(n) THEN SearchOutcome(Nil, FALSE, <<>>)
                  ELSE SearchOutcome(np, FALSE, <<>>)

-----------------------------------------------------------------------------
(* Leaf enumeration and search by predicate.                               *)

RECURSIVE getAllLeafRec(_)
RECURSIVE getAllLeafChildren(_, _, _)

\* the loop of getAllLeafRec over n.children, from child i on
getAllLeafChildren(children, i, arr) ==
  IF i > Len(children) THEN arr
  ELSE LET chArr == getAllLeafRec(children[i])
       IN getAllLeafChildren(children, i + 1,
            IF Len(chArr) > 0 THEN arr \o chArr ELSE arr)

\* mutant: the node is listed before the leaves below it
getAllLeafRec_nodeFirst(n) ==
  LET arr == getAllLeafChildren(n.children, 1, <<>>)
  IN IF IsLeaf(n) THEN <<n>> \o arr ELSE arr

getAllLeafRec(n) ==
  LET arr == getAllLeafChildren(n.children, 1, <<>>)
  IN IF IsLeaf(n) THEN Append(arr, n) ELSE arr

\* Tree.GetAllLeaf: Nil is the nil slice, Ptr(arr) a slice that was made
GetAllLeaf(tree) ==
  IF checkTree(tree) # NoErr THEN Nil
  ELSE Ptr(getAllLeafRec(Deref(Deref(tree).root)))

\* the predicates a caller passes to GetByPredicate
Predicates == {"isLeaf", "isBranch", "hasWildcard", "never"}

\* fn(n) for the predicate named fn
ApplyPredicate(fn, n) ==
  CASE fn = "isLeaf" -> IsLeaf(n)
    [] fn = "isBranch" -> Len(n.children) >= 2
    [] fn = "hasWildcard" -> ContainsRune(n.key, curlyStart)
    [] OTHER -> FALSE

RECURSIVE getByPredicateRec(_, _)
RECURSIVE getByPredicateChildren(_, _, _)

\* the loop of getByPredicateRec over n.children, from child i on
getByPredicateChildren(children, i, fn) ==
  IF i > Len(children) THEN Nil
  ELSE LET match == getByPredicateRec(Ptr(children[i]), fn)
       IN IF match # Nil THEN match
          ELSE getByPredicateChildren(children, i + 1, fn)

\* mutant: the children are searched before the node is tested
getByPredicateRec_childrenFirst(np, fn) ==
  IF np = Nil THEN Nil
  ELSE LET match == getByPredicateChildren(Deref(np).children, 1, fn)
       IN IF match # Nil THEN match
          ELSE IF ApplyPredicate(fn, Deref(np)) THEN np
          ELSE Nil

getByPredicateRec(np, fn) ==
  IF np = Nil THEN Nil
  ELSE IF ApplyPredicate(fn, Deref(np)) THEN np
  ELSE getByPredicateChildren(Deref(np).children, 1, fn)

RECURSIVE getByPredicateCalls(_, _)
RECURSIVE getByPredicateChildrenCalls(_, _, _)

\* the nodes that the loop of getByPredicateRec passes to fn, from child i on
getByPredicateChildrenCalls(children, i, fn) ==
  IF i > Len(children) THEN <<>>
  ELSE IF getByPredicateRec(Ptr(children[i]), fn) # Nil
  THEN getByPredicateCalls(Ptr(children[i]), fn)
  ELSE getByPredicateCalls(Ptr(children[i]), fn)
       \o getByPredicateChildrenCalls(children, i + 1, fn)

\* the nodes that getByPredicateRec passes to fn, in the order of the calls
getByPredicateCalls(np, fn) ==
  IF np = Nil THEN <<>>
  ELSE IF ApplyPredicate(fn, Deref(np)) THEN <<Deref(np)>>
  ELSE <<Deref(np)>> \o getByPredicateChildrenCalls(Deref(np).children, 1, fn)

\* Tree.GetByPredicate: a pointer to the node, or Nil
GetByPredicate(tree, fn) ==
  IF checkTree(tree) # NoErr THEN Nil
  ELSE getByPredicateRec(Deref(tree).root, fn)

-----------------------------------------------------------------------------
(* The state machine: a caller invokes the operations of the tree one at a *)
(* time and takes their results.                                           *)
(*   t       the *Tree the caller holds (Nil: no tree was constructed)     *)
(*   stored  history: the value given with each key whose Insert returned  *)
(*           nil                                                           *)
(*   pc      "idle", or "returned" when ret holds the result of a call     *)
(*   ret     the last call: operation, key, returned error, found node     *)
(*   mu      the lock of the tree: whether an Insert holds it, and then    *)
(*           the key of that Insert, the tree it found, the error it will  *)
(*           return and the trees its remaining assignments produce        *)

(*   g       the goroutines that call Insert next to each other: where     *)
(*           each is in its call ("idle", "waiting" for the lock,          *)
(*           "locked", "returned"), the key it passed, the error it got    *)
(*           and whether the key was new when it called                    *)

Unlocked ==
  [locked |-> FALSE, key |-> <<>>, before |-> Nil, pending |-> <<>>,
   err |-> NoErr]

Goroutines == 1..MaxGoroutines

NotCalling == [pc |-> "idle", key |-> <<>>, err |-> NoErr, fresh |-> FALSE]

NoRet == [op |-> "none", key |-> <<>>, err |-> NoErr, found |-> Nil]

\* every call passes a value of its own, as a fresh *Route does
FreshValue == Cardinality(DOMAIN stored) + 1

Init ==
  /\ t \in {Nil, New}
  /\ stored = EmptyParams
  /\ pc = "idle"
  /\ ret = NoRet
  /\ mu = Unlocked
  /\ g = [i \in Goroutines |-> NotCalling]

InsertCall(key, value) ==
  /\ pc = "idle"
  /\ LET r == Insert(t, key, value)
     IN /\ r.err = NoErr => Cardinality(DOMAIN stored) < MaxInserts
        /\ t' = r.tree
        /\ stored' = IF r.err = NoErr
                     THEN [k \in (DOMAIN stored) \cup {key} |->
                             IF k = key THEN value ELSE stored[k]]
                     ELSE stored
        /\ ret' = [op |-> "Insert", key |-> key, err |-> r.err, found |-> Nil]
  /\ pc' = "returned"
  /\ UNCHANGED <<mu, g>>

\* mutant: a hit moves the last child of the root to the front
FindCall_moveToFront(key) ==
  /\ pc = "idle"
  /\ ret' = [op |-> "Find", key |-> key, err |-> NoErr, found |-> Find(t, key)]
  /\ pc' = "returned"
  /\ t' = IF Find(t, key) # Nil /\ Len(Deref(Deref(t).root).children) >= 2
          THEN LET root == Deref(Deref(t).root)
                   n == Len(root.children)
               IN Ptr([root |-> Ptr([root EXCEPT !.children =
                         <<root.children[n]>> \o SubSeq(root.children, 1, n - 1)])])
          ELSE t
  /\ UNCHANGED <<stored, mu, g>>

FindCall(key) ==
  /\ pc = "idle"
  /\ ret' = [op |-> "Find", key |-> key, err |-> NoErr, found |-> Find(t, key)]
  /\ pc' = "returned"
  /\ UNCHANGED <<t, stored, mu, g>>

Return ==
  /\ pc = "returned"
  /\ pc' = "idle"
  /\ ret' = NoRet
  /\ UNCHANGED <<t, stored, mu, g>>

Next ==
  \/ \E key \in Keys : InsertCall(key, FreshValue)
  \/ \E key \in Keys : FindCall(key)
  \/ Return

Spec == Init /\ [][Next]_vars

\* the operations that only read the tree
ReadOps == {"Find", "FindLongestMatch", "GetAllLeaf", "GetByPredicate"}

TypeOK ==
  /\ pc \in {"idle", "returned"}
  /\ ret.op \in {"none", "Insert", "checkPathParams"} \cup ReadOps

-----------------------------------------------------------------------------
(* The key validator on its own, and the first Insert of a raw string into *)
(* a fresh tree: every case starts from New, as the table-driven tests do. *)

InitUrl == Init /\ t = New

UrlInsertCall(url) == InsertCall(url, FreshValue)

CheckPathParamsCall(url) ==
  /\ pc = "idle"
  /\ ret' = [op |-> "checkPathParams", key |-> url,
             err |-> checkPathParams(url), found |-> Nil]
  /\ pc' = "returned"
  /\ UNCHANGED <<t, stored, mu, g>>

ReturnFresh ==
  /\ pc = "returned"
  /\ pc' = "idle"
  /\ ret' = NoRet
  /\ t' = New
  /\ stored' = EmptyParams
  /\ UNCHANGED <<mu, g>>

NextUrl ==
  \/ \E url \in Urls : UrlInsertCall(url)
  \/ \E url \in Urls : CheckPathParamsCall(url)
  \/ ReturnFresh

SpecUrl == InitUrl /\ [][NextUrl]_vars

-----------------------------------------------------------------------------
(* The read operations on the trees that successful Inserts build.         *)

\* an Insert that succeeds
BuildCall(key) ==
  /\ pc = "idle"
  /\ Cardinality(DOMAIN stored) < MaxInserts
  /\ Insert(t, key, FreshValue).err = NoErr
  /\ InsertCall(key, FreshValue)

FindLongestMatchCall(key) ==
  /\ pc = "idle"
  /\ ret' = [op |-> "FindLongestMatch", key |-> key, err |-> NoErr,
             found |-> FindLongestMatch(t, key)]
  /\ pc' = "returned"
  /\ UNCHANGED <<t, stored, mu, g>>

GetAllLeafCall ==
  /\ pc = "idle"
  /\ ret' = [op |-> "GetAllLeaf", key |-> <<>>, err |-> NoErr,
             found |-> GetAllLeaf(t)]
  /\ pc' = "returned"
  /\ UNCHANGED <<t, stored, mu, g>>

\* ret.key holds the name of the predicate
GetByPredicateCall(fn) ==
  /\ pc = "idle"
  /\ ret' = [op |-> "GetByPredicate", key |-> <<fn>>, err |-> NoErr,
             found |-> GetByPredicate(t, fn)]
  /\ pc' = "returned"
  /\ UNCHANGED <<t, stored, mu, g>>

NextRead ==
  \/ pc = "idle" /\ \E key \in Keys : BuildCall(key)
  \/ pc = "idle" /\ \E key \in Keys : FindCall(key)
  \/ pc = "idle" /\ \E key \in Keys : FindLongestMatchCall(key)
  \/ GetAllLeafCall
  \/ \E fn \in Predicates : GetByPredicateCall(fn)
  \/ Return

SpecRead == Init /\ [][NextRead]_vars

-----------------------------------------------------------------------------
(* An Insert running next to the read operations of another goroutine.     *)
(* Insert takes t.mu and makes its assignments one at a time; the read     *)
(* operations take no lock, so each can run between any two assignments.   *)

\* Insert passes its two guards, takes the lock and finds its place
InsertLock(key) ==
  /\ ~mu.locked
  /\ t # Nil
  /\ key # <<>>
  /\ insertLocked(t, key, FreshValue).err = NoErr
       => Cardinality(DOMAIN stored) < MaxInserts
  /\ mu' = [locked |-> TRUE, key |-> key, before |-> t,
            pending |-> insertLockedWrites(t, key, FreshValue),
            err |-> insertLocked(t, key, FreshValue).err]
  /\ UNCHANGED <<t, stored, pc, ret, g>>

\* the next assignment of the Insert that holds the lock
InsertWrite ==
  /\ mu.locked
  /\ mu.pending # <<>>
  /\ t' = Head(mu.pending)
  /\ mu' = [mu EXCEPT !.pending = Tail(mu.pending)]
  /\ UNCHANGED <<stored, pc, ret, g>>

\* the Insert returns: the deferred Unlock
InsertUnlock ==
  /\ mu.locked
  /\ mu.pending = <<>>
  /\ mu' = Unlocked
  /\ stored' = IF mu.err = NoErr
               THEN [k \in (DOMAIN stored) \cup {mu.key} |->
                       IF k = mu.key THEN FreshValue ELSE stored[k]]
               ELSE stored
  /\ UNCHANGED <<t, pc, ret, g>>

NextConc ==
  \/ \E key \in Keys : InsertLock(key)
  \/ InsertWrite
  \/ InsertUnlock
  \/ \E key \in Keys : FindCall(key)
  \/ \E key \in Keys : FindLongestMatchCall(key)
  \/ GetAllLeafCall
  \/ \E fn \in Predicates : GetByPredicateCall(fn)
  \/ Return

SpecConc == Init /\ [][NextConc]_vars

-----------------------------------------------------------------------------
(* Several goroutines call Insert on the same tree.  A call passes its two *)
(* guards, waits for t.mu, makes its assignments while it holds the lock   *)
(* and unlocks as it returns.                                              *)

\* the keys the goroutines pass: the segment keys, the empty key and a key
\* the validator refuses
InsKeys == SegKeys \cup {<<>>, <<"a">>}

\* the calls that have passed the guards and have not returned
InFlight == {i \in Goroutines : g[i].pc \in {"waiting", "locked"}}

\* goroutine i calls Insert(key, _): lines 108-114, then t.mu.Lock();
\* the goroutines are numbered in the order of their calls
GCall(i, key) ==
  /\ g[i].pc = "idle"
  /\ \A j \in Goroutines : j < i => g[j].pc # "idle"
  /\ Cardinality(DOMAIN stored) + Cardinality(InFlight) < MaxInserts
  /\ g' = [g EXCEPT ![i] =
            IF t = Nil
            THEN [pc |-> "returned", key |-> key, err |-> errTreeIsNil,
                  fresh |-> key \notin DOMAIN stored]
            ELSE IF key = <<>>
            THEN [pc |-> "returned", key |-> key, err |-> errKeyIsEmpty,
                  fresh |-> key \notin DOMAIN stored]
            ELSE [pc |-> "waiting", key |-> key, err |-> NoErr,
                  fresh |-> key \notin DOMAIN stored]]
  /\ UNCHANGED <<t, stored, pc, ret, mu>>

\* mutant: the lock is taken although another call holds it
GLock_noExclusion(i) ==
  /\ g[i].pc = "waiting"
  /\ mu' = [locked |-> TRUE, key |-> g[i].key, before |-> t,
            pending |-> insertLockedWrites(t, g[i].key, FreshValue),
            err |-> insertLocked(t, g[i].key, FreshValue).err]
  /\ g' = [g EXCEPT ![i].pc = "locked"]
  /\ UNCHANGED <<t, stored, pc, ret>>

\* t.mu.Lock() returns in goroutine i, and the call finds its place
GLock(i) ==
  /\ g[i].pc = "waiting"
  /\ ~mu.locked
  /\ mu' = [locked |-> TRUE, key |-> g[i].key, before |-> t,
            pending |-> insertLockedWrites(t, g[i].key, FreshValue),
            err |-> insertLocked(t, g[i].key, FreshValue).err]
  /\ g' = [g EXCEPT ![i].pc = "locked"]
  /\ UNCHANGED <<t, stored, pc, ret>>

\* the call of goroutine i returns: the deferred Unlock, on every path
GUnlock(i) ==
  /\ g[i].pc = "locked"
  /\ mu.pending = <<>>
  /\ mu' = Unlocked
  /\ stored' = IF mu.err = NoErr
               THEN [k \in (DOMAIN stored) \cup {mu.key} |->
                       IF k = mu.key THEN FreshValue ELSE stored[k]]
               ELSE stored
  /\ g' = [g EXCEPT ![i].pc = "returned", ![i].err = mu.err]
  /\ UNCHANGED <<t, pc, ret>>

\* every call has returned, and the callers take the results
GJoin ==
  /\ InFlight = {}
  /\ \E i \in Goroutines : g[i].pc = "returned"
  /\ g' = [i \in Goroutines |-> NotCalling]
  /\ UNCHANGED <<t, stored, pc, ret, mu>>

NextIns ==
  \/ \E i \in Goroutines, key \in InsKeys : GCall(i, key)
  \/ \E i \in Goroutines : GLock(i)
  \/ InsertWrite
  \/ \E i \in Goroutines : GUnlock(i)
  \/ GJoin

SpecIns == Init /\ [][NextIns]_vars

-----------------------------------------------------------------------------
(* Keys whose wildcard segment lies around the largest position a uint8    *)
(* holds: the key is n slashes followed by {name}, so that its segments    *)
(* are n empty ones and the wildcard at the zero-based index n.            *)

\* the largest value of paramInfo.pos
MaxUint8 == 255

Slashes(n) == [i \in 1..n |-> slash]

WidePositions == (MaxUint8 - 1)..(MaxUint8 + 2)

WideKeys ==
  {Slashes(n) \o seg : n \in WidePositions,
                       seg \in {<<"{", "a", "}">>, <<"{", "b", "}">>}}

WideSearchKeys ==
  {Slashes(n) \o seg : n \in WidePositions, seg \in {<<"a">>, <<"b">>}}

WideInsertCall(key) == InsertCall(key, FreshValue)

WideFindCall(key) == FindCall(key)

NextWide ==
  \/ \E key \in WideKeys : WideInsertCall(key)
  \/ \E key \in WideSearchKeys : WideFindCall(key)
  \/ Return

SpecWide == Init /\ [][NextWide]_vars

-----------------------------------------------------------------------------
(* The implementation of src/tree.go: a node holds its value directly and  *)
(* a flag isLeaf that says whether a key is stored at it.  Its             *)
(* longestCommonPrefix, checkPathParams and checkTree are those above;     *)
(* the definitions that differ carry the suffix Flag.                      *)

\* the zero value of the stored type, a pointer in the tests
defValue == Nil

\* node.IsLeaf
IsLeafFlag(n) == n.isLeaf

createNewNodeFlag(key, value, children) ==
  [key |-> key, value |-> value, children |-> children, isLeaf |-> TRUE]

\* the key "/" ends with a slash and is refused like any other
checkUrlFlag(url) ==
  IF url[1] # slash THEN errMissingSlashPrefix
  ELSE IF url[Len(url)] = slash THEN errPresentSlashSuffix
  ELSE checkPathParams(url)

RECURSIVE insertRecFlag(_, _, _)
RECURSIVE iterateInsertFromFlag(_, _, _, _)

\* the loop of iterateInsert from child i (one-based) on
iterateInsertFromFlag(n, key, value, i) ==
  IF i > Len(n.children)
  THEN [err |-> errNoCommonPrefix, node |-> n]
  ELSE LET r == insertRecFlag(n.children[i], key, value)
           n2 == [n EXCEPT !.children[i] = r.node]
       IN IF r.err = NoErr THEN [err |-> NoErr, node |-> n2]
          ELSE IF r.err # errNoCommonPrefix THEN [err |-> r.err, node |-> n2]
          ELSE iterateInsertFromFlag(n2, key, value, i + 1)

iterateInsertFlag(n, key, value) == iterateInsertFromFlag(n, key, value, 1)

insertRecFlag(n, key, value) ==
  LET lcp == longestCommonPrefix(n.key, key)
      currentKeyLen == Len(n.key)
      keyLen == Len(key)
  IN IF lcp = 0 THEN [err |-> errNoCommonPrefix, node |-> n]
     ELSE IF currentKeyLen = lcp /\ keyLen = lcp
     THEN IF IsLeafFlag(n)
          THEN [err |-> errKeyIsAlreadyStored, node |-> n]
          ELSE [err |-> NoErr, node |-> [n EXCEPT !.value = value]]
     ELSE IF currentKeyLen > lcp
     THEN LET cNewNode == createNewNodeFlag(Drop(n.key, lcp), n.value, n.children)
              keyRem == Drop(key, lcp)
          IN IF keyRem = <<>>
             THEN [err |-> NoErr,
                   node |-> [key |-> Take(n.key, lcp), value |-> value,
                             children |-> <<cNewNode>>, isLeaf |-> TRUE]]
             ELSE LET newNode == createNewNodeFlag(keyRem, value, <<>>)
                  IN [err |-> NoErr,
                      node |-> [key |-> Take(n.key, lcp), value |-> defValue,
                                children |-> <<cNewNode, newNode>>,
                                isLeaf |-> FALSE]]
     ELSE LET keyRem == Drop(key, lcp)
              r == iterateInsertFlag(n, keyRem, value)
          IN IF r.err = NoErr THEN r
             ELSE IF r.err # errNoCommonPrefix THEN r
             ELSE [err |-> NoErr,
                   node |-> [r.node EXCEPT !.children =
                               Append(r.node.children,
                                      createNewNodeFlag(keyRem, value, <<>>))]]

\* Tree.Insert of src/tree.go: the returned error and the tree as the call
\* leaves it
InsertFlag(tree, key, value) ==
  IF tree = Nil THEN [err |-> errTreeIsNil, tree |-> tree]
  ELSE IF key = <<>> THEN [err |-> errKeyIsEmpty, tree |-> tree]
  ELSE LET urlErr == checkUrlFlag(key)
       IN IF urlErr # NoErr THEN [err |-> urlErr, tree |-> tree]
          ELSE IF Deref(tree).root = Nil
          THEN [err |-> NoErr,
                tree |-> Ptr([root |-> Ptr(createNewNodeFlag(key, value, <<>>))])]
          ELSE LET r == insertRecFlag(Deref(Deref(tree).root), key, value)
               IN [err |-> r.err, tree |-> Ptr([root |-> Ptr(r.node)])]

RECURSIVE getAllLeafRecFlag(_)
RECURSIVE getAllLeafChildrenFlag(_, _, _)

\* the loop of getAllLeafRec over n.children, from child i on
getAllLeafChildrenFlag(children, i, arr) ==
  IF i > Len(children) THEN arr
  ELSE LET chArr == getAllLeafRecFlag(children[i])
       IN getAllLeafChildrenFlag(children, i + 1,
            IF Len(chArr) > 0 THEN arr \o chArr ELSE arr)

getAllLeafRecFlag(n) ==
  LET arr == getAllLeafChildrenFlag(n.children, 1, <<>>)
  IN IF IsLeafFlag(n) THEN Append(arr, n) ELSE arr

\* Tree.GetAllLeaf of src/tree.go
GetAllLeafFlag(tree) ==
  IF checkTree(tree) # NoErr THEN Nil
  ELSE Ptr(getAllLeafRecFlag(Deref(Deref(tree).root)))

\* the keys passed to Insert: long enough for two keys to branch below a
\* common prefix that is a key itself
FlagKeys == Strings(MaxRawLen + 1)

\* a key that is stored may be inserted again: the tree does not grow
FlagInsertCall(key) ==
  /\ pc = "idle"
  /\ LET r == InsertFlag(t, key, Ptr(FreshValue))
     IN /\ (r.err = NoErr /\ key \notin DOMAIN stored)
             => Cardinality(DOMAIN stored) < MaxInserts + 1
        /\ t' = r.tree
        /\ stored' = IF r.err = NoErr
                     THEN [k \in (DOMAIN stored) \cup {key} |->
                             IF k = key THEN FreshValue ELSE stored[k]]
                     ELSE stored
        /\ ret' = [op |-> "Insert", key |-> key, err |-> r.err, found |-> Nil]
  /\ pc' = "returned"
  /\ UNCHANGED <<mu, g>>

FlagGetAllLeafCall ==
  /\ pc = "idle"
  /\ ret' = [op |-> "GetAllLeaf", key |-> <<>>, err |-> NoErr,
             found |-> GetAllLeafFlag(t)]
  /\ pc' = "returned"
  /\ UNCHANGED <<t, stored, mu, g>>

NextFlag ==
  \/ \E key \in FlagKeys : FlagInsertCall(key)
  \/ FlagGetAllLeafCall
  \/ Return

SpecFlag == Init /\ [][NextFlag]_vars

-----------------------------------------------------------------------------
(* The offset scanner on its own: getOffsets applied to the strings of its *)
(* table-driven test and to every pair of short raw strings.               *)

\* the stored keys and search keys of TestGetOffSets
TableStrings ==
  { <<"f", "o", "o">>, <<"b", "a", "r">>, <<"f", "o", "o", "}">>,
    <<"{", "f", "o", "o", "}">>, <<"{", "f", "o", "o">>,
    <<"/", "f", "o", "o", "/", "{", "i", "d", "}">>,
    <<"/", "f", "o", "o", "/", "{", "i", "d">>,
    <<"/", "f", "o", "o", "/", "5", "/", "6">>,
    <<"/", "{", "i", "d", "}", "/", "b", "a", "r">>,
    <<"/", "5", "/", "b", "a", "r">>, <<"/", "5", "/", "f", "o", "o">> }

ScanStrings == TableStrings \cup Strings(MaxRawLen)

\* ret.key holds the stored key, ret.found the other arguments and the
\* returned triple
GetOffsetsCall(storedKey, searchKey, isWildcard) ==
  /\ pc = "idle"
  /\ ret' = [op |-> "getOffsets", key |-> storedKey, err |-> NoErr,
             found |-> [searchKey |-> searchKey, isWildcard |-> isWildcard,
                        offsets |-> getOffsets(storedKey, searchKey, isWildcard)]]
  /\ pc' = "returned"
  /\ UNCHANGED <<t, stored, mu, g>>

NextScan ==
  \/ /\ pc = "idle"
     /\ \E storedKey \in ScanStrings, searchKey \in ScanStrings,
           isWildcard \in BOOLEAN :
          GetOffsetsCall(storedKey, searchKey, isWildcard)
  \/ Return

SpecScan == Init /\ [][NextScan]_vars

-----------------------------------------------------------------------------
(* What the claims speak of: segment-wise matching of a stored key.        *)

HasNoBrace(seg) == ~ContainsRune(seg, curlyStart) /\ ~ContainsRune(seg, curlyEnd)

\* seg is {name} with a non-empty, brace-free name
IsWildcardSeg(seg) ==
  /\ Len(seg) >= 3
  /\ seg[1] = curlyStart
  /\ seg[Len(seg)] = curlyEnd
  /\ HasNoBrace(SubSeq(seg, 2, Len(seg) - 1))

ParamName(seg) == SubSeq(seg, 2, Len(seg) - 1)

WildcardPositions(k) ==
  LET ks == Split(k, slash) IN {i \in 1..Len(ks) : IsWildcardSeg(ks[i])}

\* k satisfies the Key data model: every segment is literal or {name}
KeyDataModel(k) ==
  LET ks == Split(k, slash)
  IN \A i \in 1..Len(ks) : HasNoBrace(ks[i]) \/ IsWildcardSeg(ks[i])

DistinctNames(k) ==
  LET ks == Split(k, slash)
  IN \A i, j \in WildcardPositions(k) : ks[i] = ks[j] => i = j

\* k matches s segment by segment
Matches(k, s) ==
  LET ks == Split(k, slash)
      ss == Split(s, slash)
  IN /\ Len(ks) = Len(ss)
     /\ \A i \in 1..Len(ks) : IsWildcardSeg(ks[i]) \/ ks[i] = ss[i]

\* s is k with every {name} replaced by a non-empty token
InstanceOf(k, s) ==
  /\ Matches(k, s)
  /\ \A i \in WildcardPositions(k) : Split(s, slash)[i] # <<>>

\* the bindings the replacement gives
ExpectedParams(k, s) ==
  LET ks == Split(k, slash)
      ss == Split(s, slash)
  IN [name \in {ParamName(ks[i]) : i \in WildcardPositions(k)} |->
        ss[CHOOSE i \in WildcardPositions(k) : ParamName(ks[i]) = name]]

Returned(op) == pc = "returned" /\ ret.op = op

-----------------------------------------------------------------------------
(* C1: static round trip.  Find(k) of a stored key k without wildcard      *)
(* segments returns the value k was inserted with and an empty parameter   *)
(* map, whatever other keys the tree holds.                                *)
C1_StaticRoundTrip ==
  (Returned("Find") /\ ret.key \in DOMAIN stored
     /\ ~ContainsRune(ret.key, curlyStart))
  => ret.found = Ptr([value |-> stored[ret.key], params |-> EmptyParams])

(* C2: wildcard round trip.  For a stored key k with wildcard segments of  *)
(* distinct names and a search key s that is k with every {name} replaced  *)
(* by a non-empty token, if no other stored key matches s then Find(s)     *)
(* returns the value of k and binds every name to its token.               *)
C2_WildcardRoundTrip ==
  Returned("Find") =>
    \A k \in DOMAIN stored :
      (/\ KeyDataModel(k)
       /\ WildcardPositions(k) # {}
       /\ DistinctNames(k)
       /\ InstanceOf(k, ret.key)
       /\ \A k2 \in (DOMAIN stored) \ {k} : ~Matches(k2, ret.key))
      => ret.found = Ptr([value |-> stored[k],
                          params |-> ExpectedParams(k, ret.key)])

(* C3: Find is sound.  Find(s) returns a result only if some stored key    *)
(* matches s segment by segment.                                           *)
C3_FindSound ==
  (Returned("Find") /\ ret.found # Nil)
  => \E k \in DOMAIN stored : Matches(k, ret.key)

(* C4: no duplicate keys.  Insert of a key that an earlier Insert stored   *)
(* returns errKeyIsAlreadyStored, whatever was inserted in between.        *)
C4_NoDuplicateKeys ==
  [][(ret'.op = "Insert" /\ ret'.key \in DOMAIN stored)
       => ret'.err = errKeyIsAlreadyStored]_vars

\* the duplicate is refused below a root that was split by another key
C4_Witness ==
  /\ Returned("Insert")
  /\ ret.err = errKeyIsAlreadyStored
  /\ Cardinality(DOMAIN stored) >= 2
  /\ Len(Deref(Deref(t).root).children) >= 1

(* C5: insertion is all-or-nothing.  An Insert that returns an error       *)
(* leaves the tree as it was: same root, fragments, payloads and children. *)
C5_AllOrNothing ==
  [][(ret'.op = "Insert" /\ ret'.err # NoErr) => t' = t]_vars

\* a key is refused at a node below the root
C5_Witness ==
  /\ Returned("Insert")
  /\ ret.err = errKeyIsAlreadyStored
  /\ Deref(Deref(t).root).key # ret.key

(* C6: a non-empty key that does not start with a slash is refused with    *)
(* errMissingSlashPrefix on any tree, whatever else is wrong with it.      *)
C6_MissingSlashPrefix ==
  (Returned("Insert") /\ t # Nil /\ ret.key # <<>> /\ ret.key[1] # slash)
  => ret.err = errMissingSlashPrefix

\* the key also ends with a slash or has a bracket, and the tree has a root
C6_Witness ==
  /\ Returned("Insert")
  /\ ret.err = errMissingSlashPrefix
  /\ t # Nil /\ Deref(t).root # Nil
  /\ \/ ret.key[Len(ret.key)] = slash
     \/ ContainsRune(ret.key, curlyStart)

(* C7: a key other than "/" that starts and ends with a slash is refused   *)
(* with errPresentSlashSuffix; the key "/" is accepted by a tree that does *)
(* not hold it, and Find("/") returns its value from then on.              *)
C7_TrailingSlash ==
  [][/\ (ret'.op = "Insert" /\ t # Nil /\ Len(ret'.key) >= 2
           /\ ret'.key[1] = slash /\ ret'.key[Len(ret'.key)] = slash)
        => ret'.err = errPresentSlashSuffix
     /\ (ret'.op = "Insert" /\ t # Nil /\ ret'.key = <<slash>>
           /\ <<slash>> \notin DOMAIN stored)
        => ret'.err = NoErr
     /\ (ret'.op = "Find" /\ ret'.key = <<slash>> /\ <<slash>> \in DOMAIN stored)
        => ret'.found = Ptr([value |-> stored[<<slash>>], params |-> EmptyParams])
    ]_vars

\* "/" is stored next to another key, and a key with a trailing slash is refused
C7_Witness ==
  /\ Returned("Insert")
  /\ ret.err = errPresentSlashSuffix
  /\ <<slash>> \in DOMAIN stored
  /\ Cardinality(DOMAIN stored) >= 2

\* the scan of C8 is inside a parameter just before position i (one-based):
\* the last bracket before i is an opening one
InsideBefore(url, i) ==
  \E j \in 1..(i - 1) :
    /\ url[j] = curlyStart
    /\ \A m \in (j + 1)..(i - 1) : url[m] # curlyStart /\ url[m] # curlyEnd

Malformed(url) ==
  \/ \E i \in 1..Len(url) :
       \/ url[i] = curlyStart /\ InsideBefore(url, i)
       \/ url[i] = curlyEnd /\ ~InsideBefore(url, i)
       \/ url[i] = slash /\ InsideBefore(url, i)
  \/ InsideBefore(url, Len(url) + 1)

(* C8: checkPathParams(url) returns errBadPathParamSyntax exactly when the *)
(* left-to-right scan meets "{" inside a parameter, "}" outside of one,    *)
(* "/" inside of one, or ends inside of one; otherwise it returns nil.     *)
C8_CheckPathParams ==
  Returned("checkPathParams") =>
    /\ ret.err \in {NoErr, errBadPathParamSyntax}
    /\ ret.err = errBadPathParamSyntax <=> Malformed(ret.key)

\* a slash inside a parameter that is closed later
C8_Witness ==
  /\ Returned("checkPathParams")
  /\ ret.err = errBadPathParamSyntax
  /\ Count(ret.key, curlyStart) = 1
  /\ Count(ret.key, curlyEnd) = 1
  /\ \E i \in 1..Len(ret.key) : ret.key[i] = slash /\ InsideBefore(ret.key, i)

\* a segment without brackets, or one bracket group that spans the segment
SegmentFullyWrapped(seg) ==
  \/ HasNoBrace(seg)
  \/ /\ Len(seg) >= 2
     /\ seg[1] = curlyStart
     /\ seg[Len(seg)] = curlyEnd
     /\ HasNoBrace(SubSeq(seg, 2, Len(seg) - 1))

(* C9: every key accepted by Insert satisfies the Key data model: each     *)
(* bracket group spans one entire segment of the key.                      *)
C9_AcceptedKeysWellFormed ==
  \A k \in DOMAIN stored :
    LET ks == Split(k, slash)
    IN \A i \in 1..Len(ks) : SegmentFullyWrapped(ks[i])

(* C10: on a nil tree Insert returns errTreeIsNil for every key, the empty *)
(* one included; on a tree with the empty key it returns errKeyIsEmpty;    *)
(* neither touches the tree.                                               *)
C10_GuardPrecedence ==
  [][ret'.op = "Insert" =>
       /\ t = Nil => (ret'.err = errTreeIsNil /\ t' = t)
       /\ (t # Nil /\ ret'.key = <<>>) => (ret'.err = errKeyIsEmpty /\ t' = t)
    ]_vars

\* the empty key on a nil tree
C10_Witness ==
  /\ Returned("Insert")
  /\ t = Nil
  /\ ret.key = <<>>
  /\ ret.err = errTreeIsNil

(* C11: the read operations treat a missing tree as absence.  Find and     *)
(* FindLongestMatch return nil for a nil tree, a tree without a root and   *)
(* the empty search key; GetAllLeaf and GetByPredicate return nil for a    *)
(* nil tree and a tree without a root.                                     *)
C11_ReadsOnMissingTree ==
  (/\ pc = "returned"
   /\ ret.op \in ReadOps
   /\ \/ t = Nil
      \/ Deref(t).root = Nil
      \/ ret.op \in {"Find", "FindLongestMatch"} /\ ret.key = <<>>)
  => ret.found = Nil

\* the empty key is searched in a tree whose root fragment has a wildcard
C11_Witness ==
  /\ Returned("Find")
  /\ ret.key = <<>>
  /\ t # Nil /\ Deref(t).root # Nil
  /\ ContainsRune(Deref(Deref(t).root).key, curlyStart)

IsPrefix(k, s) == Len(k) <= Len(s) /\ Take(s, Len(k)) = k

(* C12: FindLongestMatch(s) of a non-empty s returns the value of the      *)
(* longest stored key that is a literal prefix of s, and absence exactly   *)
(* when no stored key is a literal prefix of s.                            *)
C12_LongestMatch ==
  (Returned("FindLongestMatch") /\ t # Nil /\ ret.key # <<>>) =>
    LET P == {k \in DOMAIN stored : IsPrefix(k, ret.key)}
    IN IF P = {} THEN ret.found = Nil
       ELSE /\ ret.found # Nil
            /\ Deref(ret.found).value =
                 stored[CHOOSE k \in P : \A k2 \in P : Len(k2) <= Len(k)]

\* two stored keys are prefixes of the search key, which is not stored
C12_Witness ==
  /\ Returned("FindLongestMatch")
  /\ ret.found # Nil
  /\ ret.key \notin DOMAIN stored
  /\ Cardinality({k \in DOMAIN stored : IsPrefix(k, ret.key)}) >= 2

Ambiguous(k1, k2) ==
  LET ks1 == Split(k1, slash)
      ks2 == Split(k2, slash)
  IN /\ KeyDataModel(k1) /\ KeyDataModel(k2)
     /\ Len(ks1) = Len(ks2)
     /\ \A i \in 1..Len(ks1) :
          ks1[i] = ks2[i] \/ IsWildcardSeg(ks1[i]) \/ IsWildcardSeg(ks2[i])
     /\ \E i \in 1..Len(ks1) : IsWildcardSeg(ks1[i]) # IsWildcardSeg(ks2[i])

\* a key the validator is meant to accept
ValidKey(k) ==
  /\ k # <<>>
  /\ k[1] = slash
  /\ (k[Len(k)] # slash \/ k = <<slash>>)
  /\ KeyDataModel(k)

(* C14: ambiguous routes are rejected.  Insert of a key that is ambiguous  *)
(* with a stored key returns an error; Insert of a valid new key that is   *)
(* ambiguous with no stored key returns nil.                               *)
C14_AmbiguousRejected ==
  [][ret'.op = "Insert" =>
       /\ (\E k \in DOMAIN stored : Ambiguous(k, ret'.key)) => ret'.err # NoErr
       /\ (/\ t # Nil
           /\ ValidKey(ret'.key)
           /\ ret'.key \notin DOMAIN stored
           /\ \A k \in DOMAIN stored : ~Ambiguous(k, ret'.key))
          => ret'.err = NoErr
    ]_vars

(* C15: parameter binding.  When Find(s) returns the payload of the stored *)
(* key k, the returned map has exactly one entry per wildcard segment of   *)
(* k, keyed by its name, whose value is the segment of s at the index the  *)
(* wildcard has in k; a key without wildcards gives the empty map.         *)
C15_ParameterBinding ==
  (Returned("Find") /\ ret.found # Nil) =>
    \A k \in DOMAIN stored :
      stored[k] = Deref(ret.found).value =>
        LET ks == Split(k, slash)
            ss == Split(ret.key, slash)
            W == WildcardPositions(k)
            params == Deref(ret.found).params
        IN /\ DOMAIN params = {ParamName(ks[i]) : i \in W}
           /\ \A i \in W : i <= Len(ss) /\ params[ParamName(ks[i])] = ss[i]

-----------------------------------------------------------------------------
\* the result of read operation op with argument key on tree tr
ReadResult(op, key, tr) ==
  CASE op = "Find" -> Find(tr, key)
    [] op = "FindLongestMatch" -> FindLongestMatch(tr, key)
    [] op = "GetAllLeaf" -> GetAllLeaf(tr)
    [] OTHER -> GetByPredicate(tr, key[1])

\* the tree before and after the Insert that holds the lock, if any
TreeBefore == IF mu.locked THEN mu.before ELSE t

TreeAfter ==
  IF mu.locked /\ mu.pending # <<>> THEN mu.pending[Len(mu.pending)] ELSE t

\* the writes of an Insert end in the tree the Insert returns with
WritesAgree ==
  mu.locked => TreeAfter = insertLocked(mu.before, mu.key, FreshValue).tree

(* C16: reads are serialized against structural mutation.  Every read      *)
(* operation returns what it returns on the tree as it was before the      *)
(* Insert running next to it, or on the tree as that Insert leaves it:     *)
(* it never observes a partially applied split.                            *)
C16_ReadsSerialized ==
  [][(pc = "idle" /\ pc' = "returned" /\ ret'.op \in ReadOps)
       => \/ ret'.found = ReadResult(ret'.op, ret'.key, TreeBefore)
          \/ ret'.found = ReadResult(ret'.op, ret'.key, TreeAfter)]_vars

-----------------------------------------------------------------------------
\* every stored key is free of wildcards
StaticTree == \A k \in DOMAIN stored : HasNoBrace(k)

(* C17: exact lookup on static trees.  When every stored key is free of    *)
(* wildcards, Find(s) returns a result if and only if s is one of the      *)
(* stored keys, and then the value of that key; a proper or partial prefix *)
(* of stored keys is absent, also where it ends on a branching node.       *)
C17_StaticExactLookup ==
  (Returned("Find") /\ StaticTree)
  => ret.found = IF ret.key \in DOMAIN stored
                 THEN Ptr([value |-> stored[ret.key], params |-> EmptyParams])
                 ELSE Nil

\* Find of the fragment of a branching root without payload: absent
C17_Witness ==
  /\ Returned("Find") /\ StaticTree
  /\ Cardinality(DOMAIN stored) = 2
  /\ ret.key \notin DOMAIN stored
  /\ \A k \in DOMAIN stored : IsPrefix(ret.key, k)
  /\ Deref(Deref(t).root).key = ret.key
  /\ ~IsLeaf(Deref(Deref(t).root))
  /\ ret.found = Nil

-----------------------------------------------------------------------------
RECURSIVE PayloadsOf(_, _)
\* the pairs (path from the root, value) of the payload-carrying nodes
\* at and below n, where prefix is the path down to the parent of n
PayloadsOf(n, prefix) ==
  LET path == prefix \o n.key
  IN (IF IsLeaf(n) THEN {<<path, Deref(n.value).value>>} ELSE {})
     \cup UNION {PayloadsOf(n.children[i], path) : i \in 1..Len(n.children)}

RECURSIVE CountLeaves(_)
\* the number of payload-carrying nodes at and below n
CountLeaves(n) ==
  LET SumFrom[i \in 1..(Len(n.children) + 1)] ==
        IF i > Len(n.children) THEN 0
        ELSE CountLeaves(n.children[i]) + SumFrom[i + 1]
  IN (IF IsLeaf(n) THEN 1 ELSE 0) + SumFrom[1]

HasRoot == t # Nil /\ Deref(t).root # Nil

(* C18: payload invariant.  The paths from the root to the payload-        *)
(* carrying nodes are exactly the keys whose Insert returned nil, one node *)
(* for each, and each node holds the value given at that Insert; so a      *)
(* successful Insert adds its pair and keeps every earlier one, through    *)
(* any number of splits.                                                   *)
C18_PayloadInvariant ==
  /\ (IF HasRoot THEN PayloadsOf(Deref(Deref(t).root), <<>>) ELSE {})
       = {<<k, stored[k]>> : k \in DOMAIN stored}
  /\ (IF HasRoot THEN CountLeaves(Deref(Deref(t).root)) ELSE 0)
       = Cardinality(DOMAIN stored)

\* a second Insert has returned nil and has split the root
C18_Witness ==
  /\ Returned("Insert") /\ ret.err = NoErr
  /\ Cardinality(DOMAIN stored) = 2
  /\ ~IsLeaf(Deref(Deref(t).root))
  /\ Len(Deref(Deref(t).root).children) = 2

-----------------------------------------------------------------------------
RECURSIVE Compressed(_)
\* at and below n: fragments are non-empty and siblings differ in their
\* first character
Compressed(n) ==
  /\ n.key # <<>>
  /\ \A i, j \in 1..Len(n.children) :
        i # j => Take(n.children[i].key, 1) # Take(n.children[j].key, 1)
  /\ \A i \in 1..Len(n.children) : Compressed(n.children[i])

(* C19: compression invariant.  In every reachable tree no two children of *)
(* the same node have fragments that begin with the same character, and    *)
(* every fragment is non-empty.                                            *)
C19_Compression == HasRoot => Compressed(Deref(Deref(t).root))

\* an Insert has put a wildcard fragment next to a literal sibling
C19_Witness ==
  /\ Returned("Insert") /\ ret.err = NoErr /\ HasRoot
  /\ \E i, j \in 1..Len(Deref(Deref(t).root).children) :
        /\ i # j
        /\ ContainsRune(Deref(Deref(t).root).children[i].key, curlyStart)
        /\ ~ContainsRune(Deref(Deref(t).root).children[j].key, curlyStart)

-----------------------------------------------------------------------------
\* the errors a caller of Insert can get
InsertErrors ==
  {NoErr, errTreeIsNil, errKeyIsEmpty, errMissingSlashPrefix,
   errPresentSlashSuffix, errBadPathParamSyntax, errKeyIsAlreadyStored}

(* C20: errNoCommonPrefix never reaches a caller of Insert.  For every     *)
(* reachable tree and every key, Insert returns nil, errTreeIsNil,         *)
(* errKeyIsEmpty, errMissingSlashPrefix, errPresentSlashSuffix,            *)
(* errBadPathParamSyntax or errKeyIsAlreadyStored, and the fragment of the *)
(* root begins with a slash.                                               *)
C20_NoCommonPrefixInternal ==
  /\ Returned("Insert") => ret.err \in InsertErrors
  /\ HasRoot => Take(Deref(Deref(t).root).key, 1) = <<slash>>

\* no child of the root shared a prefix with the rest of the key, and the
\* Insert has appended a new child and returned nil
C20_Witness ==
  /\ Returned("Insert") /\ ret.err = NoErr /\ HasRoot
  /\ LET root == Deref(Deref(t).root)
     IN /\ IsLeaf(root)
        /\ Len(root.children) = 1
        /\ root.key # ret.key
        /\ root.children[1] =
             createNewNode(Drop(ret.key, Len(root.key)),
                           createNewNodeValue(stored[ret.key],
                                              getPathParams(ret.key)), <<>>)

-----------------------------------------------------------------------------
RECURSIVE ExpectedPathParamsFrom(_, _)
\* one (name, position) pair for every {name} with a non-empty name that
\* begins at index i (one-based) of k or later: the name is the text
\* between the braces, the position the number of slashes before it
ExpectedPathParamsFrom(k, i) ==
  IF i > Len(k) THEN <<>>
  ELSE IF k[i] # curlyStart THEN ExpectedPathParamsFrom(k, i + 1)
  ELSE LET rest == Drop(k, i)
           close == IndexRune(rest, curlyEnd)
       IN IF close <= 0 THEN ExpectedPathParamsFrom(k, i + 1)
          ELSE <<[key |-> Take(rest, close),
                  pos |-> Count(Take(k, i), slash)]>>
               \o ExpectedPathParamsFrom(k, i + 1)

\* the parameter list Insert has stored with the key of a fresh tree
RootParams == Deref(Deref(Deref(t).root).value).params

(* C21: parameter extraction.  For every key the validator accepts,        *)
(* getPathParams returns, from left to right, exactly one (name, position) *)
(* pair for each {name} of the key, the name being the text between the    *)
(* braces and the position the zero-based index of the segment; a bare {}  *)
(* gives no pair and a key without wildcards an empty list.                *)
C21_ParameterExtraction ==
  (Returned("Insert") /\ ret.err = NoErr)
  => RootParams = ExpectedPathParamsFrom(ret.key, 1)

-----------------------------------------------------------------------------
RECURSIVE ParamsOf(_, _)
\* the pairs (path from the root, stored parameter list) of the payload-
\* carrying nodes at and below n
ParamsOf(n, prefix) ==
  LET path == prefix \o n.key
  IN (IF IsLeaf(n) THEN {<<path, Deref(n.value).params>>} ELSE {})
     \cup UNION {ParamsOf(n.children[i], path) : i \in 1..Len(n.children)}

\* the (name, zero-based segment index) pairs of the wildcards of k
TruePositions(k) ==
  LET ks == Split(k, slash)
  IN {<<ParamName(ks[i]), i - 1>> : i \in WildcardPositions(k)}

\* the stored keys that match s segment by segment
MatchingStored(s) == {k \in DOMAIN stored : Matches(k, s)}

(* C22: the stored position of a wildcard is its zero-based segment index  *)
(* for keys of any length.  A wildcard at segment index p, also for        *)
(* p >= 256, is stored with position p and is bound by Find to segment p   *)
(* of the search key.                                                      *)
C22_WidePositions ==
  /\ \A pp \in (IF HasRoot THEN ParamsOf(Deref(Deref(t).root), <<>>) ELSE {}) :
        KeyDataModel(pp[1])
        => {<<pp[2][i].key, pp[2][i].pos>> : i \in 1..Len(pp[2])}
             = TruePositions(pp[1])
  /\ (Returned("Find") /\ ret.found # Nil)
     => \A k \in MatchingStored(ret.key) :
          (Deref(ret.found).value = stored[k] /\ DistinctNames(k))
          => Deref(ret.found).params = ExpectedParams(k, ret.key)

-----------------------------------------------------------------------------
\* the key whose Insert was the n-th to return nil
KeyOfValue(n) == CHOOSE k \in DOMAIN stored : stored[k] = n

RECURSIVE InsertedUpTo(_)
\* the tree after the first n successful Inserts, one after the other
InsertedUpTo(n) ==
  IF n = 0 THEN New
  ELSE Insert(InsertedUpTo(n - 1), KeyOfValue(n), n).tree

\* the goroutines whose call passed key k when k was not stored
CallersOf(k) ==
  {i \in Goroutines : g[i].pc # "idle" /\ g[i].key = k /\ g[i].fresh}

(* C23: concurrent Inserts are mutually exclusive and linearizable.  At    *)
(* most one call holds the lock, and the lock is held only by a call that  *)
(* has not returned; of the calls that pass the same valid new key next to *)
(* each other exactly one returns nil and every other                      *)
(* errKeyIsAlreadyStored; and the tree is the tree that the successful     *)
(* Inserts produce one after the other.                                    *)
C23_InsertsLinearizable ==
  /\ Cardinality({i \in Goroutines : g[i].pc = "locked"})
       = (IF mu.locked THEN 1 ELSE 0)
  /\ \A k \in {g[i].key : i \in Goroutines} :
        (/\ t # Nil /\ k # <<>> /\ checkUrl(k) = NoErr
         /\ CallersOf(k) # {}
         /\ \A i \in CallersOf(k) : g[i].pc = "returned")
        => /\ Cardinality({i \in CallersOf(k) : g[i].err = NoErr}) = 1
           /\ \A i \in CallersOf(k) :
                 g[i].err \in {NoErr, errKeyIsAlreadyStored}
  /\ (t # Nil /\ ~mu.locked) => t = InsertedUpTo(Cardinality(DOMAIN stored))

\* two calls with the same new wildcard key have returned, one with nil
\* and one with errKeyIsAlreadyStored
C23_Witness ==
  /\ \E i, j \in Goroutines :
        /\ i # j
        /\ g[i].pc = "returned" /\ g[j].pc = "returned"
        /\ g[i].key = g[j].key /\ g[i].fresh /\ g[j].fresh
        /\ g[i].err = NoErr /\ g[j].err = errKeyIsAlreadyStored
        /\ ContainsRune(g[i].key, curlyStart)
  /\ ~mu.locked

-----------------------------------------------------------------------------
RECURSIVE NodesOf(_)
\* the nodes at and below n
NodesOf(n) == {n} \cup UNION {NodesOf(n.children[i]) : i \in 1..Len(n.children)}

\* the payload-carrying nodes at and below n
LeavesOf(n) == {x \in NodesOf(n) : IsLeaf(x)}

\* the place of node x in the list arr
PlaceIn(arr, x) == CHOOSE i \in 1..Len(arr) : arr[i] = x

(* C24: GetAllLeaf returns exactly the payload-carrying nodes of the tree, *)
(* each once.  Its length is the number of Inserts that returned nil, no   *)
(* node without payload is in it, and every node comes after the payload   *)
(* nodes of its own subtree: children in registration order, then the node *)
(* itself.                                                                 *)
C24_GetAllLeaf ==
  (Returned("GetAllLeaf") /\ HasRoot)
  => LET arr == Deref(ret.found)
         root == Deref(Deref(t).root)
     IN /\ Len(arr) = Cardinality(DOMAIN stored)
        /\ {arr[i] : i \in 1..Len(arr)} = LeavesOf(root)
        /\ Cardinality(LeavesOf(root)) = Len(arr)
        /\ \A n \in NodesOf(root) :
              /\ IsLeaf(n) =>
                   \A x \in LeavesOf(n) \ {n} : PlaceIn(arr, x) < PlaceIn(arr, n)
              /\ \A a, b \in 1..Len(n.children) :
                   a < b =>
                     \A x \in LeavesOf(n.children[a]), y \in LeavesOf(n.children[b]) :
                       PlaceIn(arr, x) < PlaceIn(arr, y)

\* the root carries a payload and so does a node below it: the root is
\* listed last
C24_Witness ==
  /\ Returned("GetAllLeaf") /\ HasRoot
  /\ IsLeaf(Deref(Deref(t).root))
  /\ Len(Deref(ret.found)) = 2
  /\ Deref(ret.found)[2] = Deref(Deref(t).root)

-----------------------------------------------------------------------------
RECURSIVE PreOrder(_)
\* the nodes at and below n: the node, then its children in list order
PreOrder(n) ==
  LET Below[i \in 1..(Len(n.children) + 1)] ==
        IF i > Len(n.children) THEN <<>>
        ELSE PreOrder(n.children[i]) \o Below[i + 1]
  IN <<n>> \o Below[1]

(* C25: GetByPredicate returns the first node in depth-first pre-order     *)
(* (the node before its children, the children in list order) for which    *)
(* the predicate holds, with or without payload, and nil when there is no  *)
(* such node; the predicate is evaluated on the nodes up to the returned   *)
(* one and on no node after it.                                            *)
C25_GetByPredicate ==
  (Returned("GetByPredicate") /\ HasRoot)
  => LET fn == ret.key[1]
         pre == PreOrder(Deref(Deref(t).root))
         hits == {i \in 1..Len(pre) : ApplyPredicate(fn, pre[i])}
         calls == getByPredicateCalls(Deref(t).root, fn)
     IN IF hits = {}
        THEN ret.found = Nil /\ calls = pre
        ELSE LET first == CHOOSE i \in hits : \A j \in hits : i <= j
             IN ret.found = Ptr(pre[first]) /\ calls = SubSeq(pre, 1, first)

\* the returned node carries no payload and is not the last in pre-order
C25_Witness ==
  /\ Returned("GetByPredicate") /\ HasRoot
  /\ ret.found # Nil
  /\ ~IsLeaf(Deref(ret.found))
  /\ Len(PreOrder(Deref(Deref(t).root))) = 3

-----------------------------------------------------------------------------
RECURSIVE NodesAtFlag(_, _)
\* the nodes at and below n whose fragments, from n down, concatenate to key
NodesAtFlag(n, key) ==
  IF n.key = key THEN {n}
  ELSE IF Len(n.key) < Len(key) /\ Take(key, Len(n.key)) = n.key
  THEN UNION {NodesAtFlag(n.children[i], Drop(key, Len(n.key))) :
                i \in 1..Len(n.children)}
  ELSE {}

(* C26: in the implementation of src/tree.go, an Insert that returned nil  *)
(* leaves the node whose fragments from the root concatenate to the key    *)
(* with IsLeaf() true, also when the key landed on a branching node that   *)
(* held no key; so a second Insert of the key returns                      *)
(* errKeyIsAlreadyStored and GetAllLeaf lists the node.                    *)
C26_LeafFlagSet ==
  (Returned("Insert") /\ ret.err = NoErr)
  => LET at == NodesAtFlag(Deref(Deref(t).root), ret.key)
         arr == Deref(GetAllLeafFlag(t))
     IN /\ at # {}
        /\ \A n \in at :
             /\ IsLeafFlag(n)
             /\ \E i \in 1..Len(arr) : arr[i] = n
        /\ InsertFlag(t, ret.key, Ptr(FreshValue)).err = errKeyIsAlreadyStored

-----------------------------------------------------------------------------
\* a call of getOffsets stayed within its strings and its loop ended
ScanInRange(scan) ==
  /\ ~scan.offs.panic
  /\ 0 <= scan.offs.i /\ scan.offs.i <= Len(scan.storedKey)
  /\ 0 <= scan.offs.j /\ scan.offs.j <= Len(scan.searchKey)
  /\ scan.offs.rounds <= Len(scan.storedKey) + 1
  /\ <<scan.offs.i, scan.offs.j, scan.offs.isWildcard>> =
       getOffsets(scan.storedKey, scan.searchKey, TRUE)

\* the search of the call that returned, with its bounds checks
SearchOfCall ==
  IF ret.op = "Find" THEN findRecChecked(Deref(t).root, ret.key, FALSE)
  ELSE findLongestMatchRecChecked(Deref(t).root, ret.key)

(* C27: Find and FindLongestMatch never fail with an index out of range.   *)
(* For every tree built by Inserts and every search key, each string index *)
(* and slice of findRec and getOffsets is within bounds, the offsets lie   *)
(* between 0 and the length of the fragment remainder and of the search    *)
(* remainder, and the scan loop ends after at most one pass per character  *)
(* of the fragment and the pass that breaks.                               *)
C27_NoIndexOutOfRange ==
  ((Returned("Find") \/ Returned("FindLongestMatch"))
     /\ HasRoot /\ ret.key # <<>>)
  => LET r == SearchOfCall
     IN /\ ~r.panic
        /\ \A s \in 1..Len(r.scans) : ScanInRange(r.scans[s])
        /\ Returned("Find")
             => r.found = findRec(Deref(t).root, ret.key, FALSE)
        /\ Returned("FindLongestMatch")
             => r.found = findLongestMatchRec(Deref(t).root, ret.key)

\* the search key ended before the fragment did: the scan stopped after a
\* wildcard with nothing left of the search key
C27_Witness ==
  /\ Returned("Find") /\ HasRoot /\ ret.key # <<>>
  /\ \E s \in 1..Len(SearchOfCall.scans) :
       LET scan == SearchOfCall.scans[s]
       IN /\ scan.offs.i < Len(scan.storedKey)
          /\ scan.offs.j = Len(scan.searchKey)
          /\ ContainsRune(scan.storedKey, curlyEnd)

-----------------------------------------------------------------------------
\* the length of the longest string that both a and b begin with
CommonPrefixLen(a, b) ==
  CHOOSE n \in 0..min(Len(a), Len(b)) :
    /\ Take(a, n) = Take(b, n)
    /\ \A m \in (n + 1)..min(Len(a), Len(b)) : Take(a, m) # Take(b, m)

(* C28: getOffsets("foo", "bar", true) returns (3, 0, true) and            *)
(* getOffsets("/foo/{id}", "/foo/5/6", false) returns (9, 6, false).  For  *)
(* a fragment without braces, a scan that starts in wildcard mode consumes *)
(* the whole fragment and nothing of the search string and stays in        *)
(* wildcard mode, and a scan that starts outside it returns (n, n, false)  *)
(* with n the length of the longest common prefix of the two strings.      *)
C28_OffsetScanner ==
  Returned("getOffsets")
  => LET storedKey == ret.key
         searchKey == ret.found.searchKey
         isWildcard == ret.found.isWildcard
         offsets == ret.found.offsets
         n == CommonPrefixLen(storedKey, searchKey)
     IN /\ (/\ storedKey = <<"f", "o", "o">>
            /\ searchKey = <<"b", "a", "r">>
            /\ isWildcard)
          => offsets = <<3, 0, TRUE>>
        /\ (/\ storedKey = <<"/", "f", "o", "o", "/", "{", "i", "d", "}">>
            /\ searchKey = <<"/", "f", "o", "o", "/", "5", "/", "6">>
            /\ ~isWildcard)
          => offsets = <<9, 6, FALSE>>
        /\ HasNoBrace(storedKey)
          => IF isWildcard THEN offsets = <<Len(storedKey), 0, TRUE>>
             ELSE offsets = <<n, n, FALSE>>

\* the second example of the claim: a literal part, then a wildcard that
\* takes one segment of the search key
C28_Witness ==
  /\ Returned("getOffsets")
  /\ ret.key = <<"/", "f", "o", "o", "/", "{", "i", "d", "}">>
  /\ ret.found.searchKey = <<"/", "f", "o", "o", "/", "5", "/", "6">>
  /\ ~ret.found.isWildcard
  /\ ret.found.offsets = <<9, 6, FALSE>>

====
